---- MODULE Spec2Model ----
(***************************************************************************)
(* Device-reservation web application (Flask + SQLAlchemy).                *)
(* State machine of the reservation and device handlers of src/website.    *)
(*                                                                         *)
(* Times are integers (one unit = 30 minutes, the notification lead); the  *)
(* clock datetime.now() is the variable now.  A request runs in one        *)
(* request-scoped SQLAlchemy session: writes on a loaded row are visible   *)
(* to later queries of the same request (autoflush) and become persistent  *)
(* only at database.session.commit(); a handler that returns without       *)
(* committing loses them when the session is removed at teardown.          *)
(*                                                                         *)
(* jobs is the job store of the APScheduler instance of __init__.py: job   *)
(* id -> run_date.                                                         *)
(***************************************************************************)
EXTENDS Integers, Sequences, FiniteSets, TLC

\* ------------------------------------------------------------------ bounds
MaxTime == 4
MaxRes == 2
MaxDev == 2
MaxFields == 2
NumProcs == 2

\* the instants a form can name; the clock starts before the first of them
Times == 1..MaxTime
Usernames == {"u1", "u2"}
DeviceNames == {"A", "B"}
Reasons == {"r1"}
Procs == 1..NumProcs

\* absent form fields (request.form.get returns None / "" : falsy)
NoId == 0
NoName == ""
NoTime == 0
\* "end": None of an availability slot
None == -1

VARIABLES users, devices, reservations, now, page, pc, local, jobs

vars == <<users, devices, reservations, now, page, pc, local, jobs>>

\* ------------------------------------------------------------------ helpers
SetMax(S) == CHOOSE x \in S : \A y \in S : y <= x
SetMin(S) == CHOOSE x \in S : \A y \in S : x <= y

\* id given by the store to a newly inserted row (INTEGER PRIMARY KEY)
NextId(table) == IF DOMAIN table = {} THEN 1 ELSE SetMax(DOMAIN table) + 1

\* table with one more row
Insert(table, id, row) == [i \in DOMAIN table \cup {id} |-> IF i = id THEN row ELSE table[i]]

\* table without one row
Remove(table, id) == [i \in DOMAIN table \ {id} |-> table[i]]

\* sequences enumerating the finite set S once each
Enumerations(S) == {q \in [1..Cardinality(S) -> S] : \A i, j \in 1..Cardinality(S) : q[i] = q[j] => i = j}

\* the page last rendered by see_availability (every other response is a redirect
\* or a form, which carry no lists)
NoPage == [device_id |-> NoId, now |-> 0, reservations |-> <<>>, availability_slots |-> <<>>]

\* ------------------------------------------------- helper_functions.py
\* line 32 with >= and <=: touching intervals pass
NoOverlapTouching(r, start_time, end_time) == (r.start_time >= end_time) \/ (r.end_time <= start_time)

\* line 32: the existing reservation r leaves the interval [start_time, end_time] free
NoOverlap(r, start_time, end_time) == (r.start_time > end_time) \/ (r.end_time < start_time)

\* the loop returning after its first row
ScanReservations_first_row(rs, ids, start_time, end_time) ==
    IF ids = {} THEN TRUE
    ELSE NoOverlap(rs[SetMin(ids)], start_time, end_time)

\* lines 30-35: the loop over the rows of the query, in row order
RECURSIVE ScanReservations(_, _, _, _)
ScanReservations(rs, ids, start_time, end_time) ==
    IF ids = {} THEN TRUE
    ELSE LET id == SetMin(ids) IN
         IF NoOverlap(rs[id], start_time, end_time)
         THEN ScanReservations(rs, ids \ {id}, start_time, end_time)
         ELSE FALSE

\* the scan without the filter on device_id
check_if_device_is_available_unfiltered(rs, device_id, start_time, end_time) ==
    ScanReservations(rs, DOMAIN rs, start_time, end_time)

\* rs is the reservation table as the request's session sees it
check_if_device_is_available(rs, device_id, start_time, end_time) ==
    ScanReservations(rs, {id \in DOMAIN rs : rs[id].device_id = device_id}, start_time, end_time)

\* the validator with start_time > end_time for line 90
check_start_and_end_time_equal(start_time, end_time, time_now) ==
    IF start_time < time_now \/ end_time < time_now THEN FALSE
    ELSE IF start_time > end_time THEN FALSE
    ELSE TRUE

check_start_and_end_time(start_time, end_time, time_now) ==
    IF start_time < time_now \/ end_time < time_now THEN FALSE
    ELSE IF start_time >= end_time THEN FALSE
    ELSE TRUE

check_if_user_exists_from_username(username) == username \in DOMAIN users

check_if_device_exists_from_device_id(device_id) == device_id \in DOMAIN devices

\* the resolver looking at the first device of the enumeration only
FirstAvailable_head(rs, all_devices, start_time, end_time) ==
    IF all_devices = <<>> THEN NoId
    ELSE IF check_if_device_is_available(rs, Head(all_devices), start_time, end_time)
         THEN Head(all_devices)
         ELSE NoId

\* lines 126-134: first device of the enumeration that is available, else False (NoId)
RECURSIVE FirstAvailable(_, _, _, _)
FirstAvailable(rs, all_devices, start_time, end_time) ==
    IF all_devices = <<>> THEN NoId
    ELSE IF check_if_device_is_available(rs, Head(all_devices), start_time, end_time)
         THEN Head(all_devices)
         ELSE FirstAvailable(rs, Tail(all_devices), start_time, end_time)

\* all_devices: the rows of Device.query.filter_by(device_name=...).all(), in the
\* order the store returned them.  Result: the device id, or NoId with a flash.
check_availability_of_device_name(rs, all_devices, start_time, end_time) ==
    IF all_devices = <<>> THEN [id |-> NoId, flash |-> "no_devices_found"]
    ELSE LET id == FirstAvailable(rs, all_devices, start_time, end_time) IN
         IF id # NoId THEN [id |-> id, flash |-> ""]
         ELSE [id |-> NoId, flash |-> "no_devices_available"]

\* the possible results of Device.query.filter_by(device_name=device_name).all()
DevicesNamed(device_name) == Enumerations({d \in DOMAIN devices : devices[d].device_name = device_name})

\* timedelta(minutes=30) of line 68, in clock units
NotifyLead == 1

\* trigger="date": a job runs once when the clock reaches its run_date and then leaves
\* the store; js at time_now holds the jobs whose run_date is still ahead
PendingJobs(js, time_now) == [k \in {j \in DOMAIN js : js[j] > time_now} |-> js[k]]

\* lines 64-78: add_job with id "notify_user_<reservation.id>", run_date 30 minutes
\* before the start, replace_existing=True
schedule_reservation_notification(js, reservation_id, start_time, time_now) ==
    PendingJobs([k \in DOMAIN js \cup {reservation_id} |->
                    IF k = reservation_id THEN start_time - NotifyLead ELSE js[k]], time_now)

\* the ids of Reservation.query.filter_by(device_id=device_id) on the committed table
ReservationsOf(device_id) == {id \in DOMAIN reservations : reservations[id].device_id = device_id}

\* ------------------------------------------------------------------ Init
\* The tables after create_database, with two accounts already stored: u1 an
\* administrator, u2 not (models.py line 28: administrator is a plain Boolean column).
NoLocal == [username |-> NoName, device_id |-> NoId, start_time |-> NoTime, end_time |-> NoTime,
            reason |-> NoName, seen |-> {}, new_id |-> NoId]

Init ==
    /\ users = [u \in Usernames |-> [administrator |-> (u = "u1")]]
    /\ devices = << >>
    /\ reservations = << >>
    /\ now = 0
    /\ page = NoPage
    /\ pc = [p \in Procs |-> "idle"]
    /\ local = [p \in Procs |-> NoLocal]
    /\ jobs = << >>

\* datetime.now() advances; the scheduler runs the jobs that fall due
Tick ==
    /\ now < MaxTime
    /\ now' = now + 1
    /\ jobs' = PendingJobs(jobs, now + 1)
    /\ UNCHANGED <<users, devices, reservations, page, pc, local>>

\* ------------------------------------------------- device_page_routing.py
\* create(), lines 230-236: the row of the new device; last_use is not set
NewDevice(device_name) ==
    [device_name |-> device_name, device_brand |-> "b1", device_status |-> "s1",
     device_type |-> "t1", last_use |-> NoTime]

\* create(): POST by an administrator
DeviceCreate(u, device_name) ==
    /\ users[u].administrator
    /\ Cardinality(DOMAIN devices) < MaxDev
    /\ devices' = Insert(devices, NextId(devices), NewDevice(device_name))
    /\ page' = NoPage
    /\ UNCHANGED <<users, reservations, now, pc, local, jobs>>

\* -------------------------------------------- reservation_page_routing.py
\* the new row taking its device_name from the first device of the table
NewReservation_first_device_name(u, device_id, start_time, end_time, reason) ==
    [device_id |-> device_id, device_name |-> devices[SetMin(DOMAIN devices)].device_name,
     username |-> u, start_time |-> start_time, end_time |-> end_time, reason |-> reason]

\* lines 137-145: the row built for the new reservation
NewReservation(u, device_id, start_time, end_time, reason) ==
    [device_id |-> device_id, device_name |-> devices[device_id].device_name, username |-> u,
     start_time |-> start_time, end_time |-> end_time, reason |-> reason]

\* create(), POST, lines 101-151, by the logged-in user u: the flashed verdict, the
\* resolved device and the reservation table when the request ends.
\* all_devices is the enumeration the resolver's query returned.  Line 146 hands the
\* new row to the notification scheduler; CreateResult is the outcome for the tables
\* when neither the scheduler nor the commit raises.
CreateResult(u, device_id, all_devices, start_time, end_time, reason) ==
    LET Rejected(msg) == [msg |-> msg, device_id |-> NoId, table |-> reservations]
        Created(id) == [msg |-> "created", device_id |-> id,
                        table |-> Insert(reservations, NextId(reservations),
                                         NewReservation(u, id, start_time, end_time, reason))]
    IN
    IF ~check_start_and_end_time(start_time, end_time, now)
    THEN Rejected("invalid_time")
    ELSE IF device_id # NoId
    THEN IF ~check_if_device_is_available(reservations, device_id, start_time, end_time)
         THEN Rejected("not_available")
         ELSE IF device_id \notin DOMAIN devices
         THEN Rejected("device_not_found")
         ELSE Created(device_id)
    ELSE LET found == check_availability_of_device_name(reservations, all_devices, start_time, end_time) IN
         IF found.id = NoId
         THEN Rejected(found.flash)
         ELSE IF ~check_if_user_exists_from_username(u)
         THEN Rejected("username_not_exist")
         ELSE Created(found.id)

\* create() with its two calls that can raise.  schedule_ok: add_job (line 146) returns;
\* otherwise its exception leaves the handler, which has no try around it.  commit_ok:
\* the commit of table_create_item (line 157) succeeds; otherwise lines 160-163 roll the
\* session back and flash the error.  new_reservation.id is None (NoId) at line 146: the
\* store assigns the id at the insert of line 157.
CreateRequest(u, device_id, all_devices, start_time, end_time, reason, schedule_ok, commit_ok) ==
    LET res == CreateResult(u, device_id, all_devices, start_time, end_time, reason) IN
    IF res.msg # "created"
    THEN [msg |-> res.msg, table |-> reservations, jobs |-> jobs]
    ELSE IF ~schedule_ok
    THEN [msg |-> "schedule_raised", table |-> reservations, jobs |-> jobs]
    ELSE LET js == schedule_reservation_notification(jobs, NoId, start_time, now) IN
         IF commit_ok
         THEN [msg |-> "created", table |-> res.table, jobs |-> js]
         ELSE [msg |-> "commit_error", table |-> reservations, jobs |-> js]

Create(u, device_id, device_name, start_time, end_time, reason, schedule_ok, commit_ok) ==
    \E all_devices \in DevicesNamed(device_name) :
        LET res == CreateRequest(u, device_id, all_devices, start_time, end_time, reason,
                                 schedule_ok, commit_ok) IN
        /\ Cardinality(DOMAIN res.table) <= MaxRes
        /\ reservations' = res.table
        /\ jobs' = res.jobs
        /\ page' = NoPage
        /\ UNCHANGED <<users, devices, now, pc, local>>

\* the delete handler without the owner's permission
DeleteResult_admin_only(u, reservation_id) ==
    IF reservation_id \notin DOMAIN reservations
    THEN [msg |-> "reservation_not_found", table |-> reservations]
    ELSE IF users[u].administrator
    THEN [msg |-> "deleted", table |-> Remove(reservations, reservation_id)]
    ELSE [msg |-> "no_permission", table |-> reservations]

\* home(), POST with _method = DELETE, lines 58-76: verdict and resulting table
DeleteResult(u, reservation_id) ==
    IF reservation_id \notin DOMAIN reservations
    THEN [msg |-> "reservation_not_found", table |-> reservations]
    ELSE IF users[u].administrator \/ reservations[reservation_id].username = u
    THEN [msg |-> "deleted", table |-> Remove(reservations, reservation_id)]
    ELSE [msg |-> "no_permission", table |-> reservations]

Delete(u, reservation_id) ==
    /\ reservations' = DeleteResult(u, reservation_id).table
    /\ page' = NoPage
    /\ UNCHANGED <<users, devices, now, pc, local, jobs>>

\* submitted forms
FormIds == 0..MaxDev
FormNames == DeviceNames \cup {NoName}
FormTimes == Times \cup {NoTime}
FormUsernames == Usernames \cup {NoName, "u9"}

EmptyForm == [device_id |-> NoId, device_name |-> NoName, username |-> NoName,
              start_time |-> NoTime, end_time |-> NoTime, reason |-> NoName]

Supplied(form) == {f \in DOMAIN form : form[f] # EmptyForm[f]}

\* update forms that supply at most MaxFields fields
UpdateForms ==
    {form \in [device_id : FormIds, device_name : FormNames, username : FormUsernames,
               start_time : FormTimes, end_time : FormTimes, reason : Reasons \cup {NoName}] :
        Cardinality(Supplied(form)) <= MaxFields}

\* the field checks with the reservation under update left out of the availability queries
UpdateOutcome_excluding_own(reservation_id, form, all_devices) ==
    LET r0 == reservations[reservation_id]
        r1 == IF form.reason # NoName THEN [r0 EXCEPT !.reason = form.reason] ELSE r0
    IN
    IF form.username # NoName /\ ~check_if_user_exists_from_username(form.username)
    THEN [msg |-> "username_not_exist", row |-> r1]
    ELSE
    LET r2 == IF form.username # NoName THEN [r1 EXCEPT !.username = form.username] ELSE r1
        times_ok == IF form.start_time # NoTime /\ form.end_time # NoTime
                    THEN check_start_and_end_time(form.start_time, form.end_time, now)
                    ELSE IF form.start_time # NoTime
                    THEN check_start_and_end_time(form.start_time, r2.end_time, now)
                    ELSE IF form.end_time # NoTime
                    THEN check_start_and_end_time(r2.start_time, form.end_time, now)
                    ELSE TRUE
    IN
    IF ~times_ok
    THEN [msg |-> "invalid_time", row |-> r2]
    ELSE
    LET r3 == [r2 EXCEPT !.start_time = IF form.start_time # NoTime THEN form.start_time ELSE @,
                         !.end_time = IF form.end_time # NoTime THEN form.end_time ELSE @]
        start_time == IF form.start_time # NoTime THEN form.start_time ELSE r3.start_time
        end_time == IF form.end_time # NoTime THEN form.end_time ELSE r3.end_time
        found == check_availability_of_device_name(
                     Remove(reservations, reservation_id), all_devices, start_time, end_time)
    IN
    IF form.device_name # NoName /\ found.id = NoId
    THEN [msg |-> found.flash, row |-> r3]
    ELSE
    LET device_id == IF form.device_name # NoName THEN found.id ELSE form.device_id
        r4 == IF form.device_name # NoName THEN [r3 EXCEPT !.device_name = form.device_name] ELSE r3
    IN
    IF device_id = NoId
    THEN [msg |-> "updated", row |-> r4]
    ELSE IF ~check_if_device_exists_from_device_id(device_id)
    THEN [msg |-> "device_not_exist", row |-> r4]
    ELSE IF check_if_device_is_available(Remove(reservations, reservation_id),
                                         device_id, start_time, end_time)
    THEN [msg |-> "updated", row |-> [r4 EXCEPT !.device_id = device_id]]
    ELSE [msg |-> "not_available", row |-> r4]

\* update(), POST by an administrator, lines 174-222: the field checks in their
\* order.  form holds the submitted fields (NoId, NoName, NoTime: not supplied).
\* Each write to the loaded row is seen by the queries that follow in the same
\* request (session autoflush).  Result: the verdict and the row as the session
\* holds it when the handler returns.
UpdateOutcome(reservation_id, form, all_devices) ==
    LET r0 == reservations[reservation_id]
        r1 == IF form.reason # NoName THEN [r0 EXCEPT !.reason = form.reason] ELSE r0
    IN
    IF form.username # NoName /\ ~check_if_user_exists_from_username(form.username)
    THEN [msg |-> "username_not_exist", row |-> r1]
    ELSE
    LET r2 == IF form.username # NoName THEN [r1 EXCEPT !.username = form.username] ELSE r1
        times_ok == IF form.start_time # NoTime /\ form.end_time # NoTime
                    THEN check_start_and_end_time(form.start_time, form.end_time, now)
                    ELSE IF form.start_time # NoTime
                    THEN check_start_and_end_time(form.start_time, r2.end_time, now)
                    ELSE IF form.end_time # NoTime
                    THEN check_start_and_end_time(r2.start_time, form.end_time, now)
                    ELSE TRUE
    IN
    IF ~times_ok
    THEN [msg |-> "invalid_time", row |-> r2]
    ELSE
    LET r3 == [r2 EXCEPT !.start_time = IF form.start_time # NoTime THEN form.start_time ELSE @,
                         !.end_time = IF form.end_time # NoTime THEN form.end_time ELSE @]
        \* lines 205-206
        start_time == IF form.start_time # NoTime THEN form.start_time ELSE r3.start_time
        end_time == IF form.end_time # NoTime THEN form.end_time ELSE r3.end_time
        found == check_availability_of_device_name(
                     [reservations EXCEPT ![reservation_id] = r3], all_devices, start_time, end_time)
    IN
    IF form.device_name # NoName /\ found.id = NoId
    THEN [msg |-> found.flash, row |-> r3]
    ELSE
    LET device_id == IF form.device_name # NoName THEN found.id ELSE form.device_id
        r4 == IF form.device_name # NoName THEN [r3 EXCEPT !.device_name = form.device_name] ELSE r3
    IN
    IF device_id = NoId
    THEN [msg |-> "updated", row |-> r4]
    ELSE IF ~check_if_device_exists_from_device_id(device_id)
    THEN [msg |-> "device_not_exist", row |-> r4]
    ELSE IF check_if_device_is_available([reservations EXCEPT ![reservation_id] = r4],
                                         device_id, start_time, end_time)
    THEN [msg |-> "updated", row |-> [r4 EXCEPT !.device_id = device_id]]
    ELSE [msg |-> "not_available", row |-> r4]

\* the update handler open to the reservation's owner as well
UpdateResult_owner(u, reservation_id, form, all_devices) ==
    IF reservation_id \notin DOMAIN reservations
    THEN [msg |-> "reservation_not_found", table |-> reservations]
    ELSE IF ~(users[u].administrator \/ reservations[reservation_id].username = u)
    THEN [msg |-> "form", table |-> reservations]
    ELSE LET out == UpdateOutcome(reservation_id, form, all_devices) IN
         [msg |-> out.msg,
          table |-> IF out.msg = "updated"
                    THEN [reservations EXCEPT ![reservation_id] = out.row]
                    ELSE reservations]

\* the update handler asking, before it commits, whether the row's device is free of the
\* other reservations for the row's times
UpdateResult_times_checked(u, reservation_id, form, all_devices) ==
    IF reservation_id \notin DOMAIN reservations
    THEN [msg |-> "reservation_not_found", table |-> reservations]
    ELSE IF ~users[u].administrator
    THEN [msg |-> "form", table |-> reservations]
    ELSE LET out == UpdateOutcome(reservation_id, form, all_devices) IN
         IF out.msg = "updated"
            /\ ~check_if_device_is_available(Remove(reservations, reservation_id), out.row.device_id,
                                             out.row.start_time, out.row.end_time)
         THEN [msg |-> "not_available", table |-> reservations]
         ELSE [msg |-> out.msg,
               table |-> IF out.msg = "updated"
                         THEN [reservations EXCEPT ![reservation_id] = out.row]
                         ELSE reservations]

\* the update handler persisting the session's row whatever the verdict
UpdateResult_keeps_session_writes(u, reservation_id, form, all_devices) ==
    IF reservation_id \notin DOMAIN reservations
    THEN [msg |-> "reservation_not_found", table |-> reservations]
    ELSE IF ~users[u].administrator
    THEN [msg |-> "form", table |-> reservations]
    ELSE LET out == UpdateOutcome(reservation_id, form, all_devices) IN
         [msg |-> out.msg, table |-> [reservations EXCEPT ![reservation_id] = out.row]]

\* the update handler writing a lone start_time or end_time without validating it
UpdateResult_lone_time_unchecked(u, reservation_id, form, all_devices) ==
    IF reservation_id \notin DOMAIN reservations
    THEN [msg |-> "reservation_not_found", table |-> reservations]
    ELSE IF ~users[u].administrator
    THEN [msg |-> "form", table |-> reservations]
    ELSE IF Supplied(form) = {"start_time"}
    THEN [msg |-> "updated",
          table |-> [reservations EXCEPT ![reservation_id].start_time = form.start_time]]
    ELSE IF Supplied(form) = {"end_time"}
    THEN [msg |-> "updated",
          table |-> [reservations EXCEPT ![reservation_id].end_time = form.end_time]]
    ELSE LET out == UpdateOutcome(reservation_id, form, all_devices) IN
         [msg |-> out.msg,
          table |-> IF out.msg = "updated"
                    THEN [reservations EXCEPT ![reservation_id] = out.row]
                    ELSE reservations]

\* update(), lines 165-230, by the logged-in user u: verdict and the table persisted
\* when the request ends.  Only table_update_item (line 225) commits; every other
\* return leaves the persisted rows as they were.
UpdateResult(u, reservation_id, form, all_devices) ==
    IF reservation_id \notin DOMAIN reservations
    THEN [msg |-> "reservation_not_found", table |-> reservations]
    ELSE IF ~users[u].administrator
    THEN [msg |-> "form", table |-> reservations]
    ELSE LET out == UpdateOutcome(reservation_id, form, all_devices) IN
         [msg |-> out.msg,
          table |-> IF out.msg = "updated"
                    THEN [reservations EXCEPT ![reservation_id] = out.row]
                    ELSE reservations]

Update(u, reservation_id, form) ==
    \E all_devices \in DevicesNamed(form.device_name) :
        LET res == UpdateResult(u, reservation_id, form, all_devices) IN
        /\ reservations' = res.table
        /\ page' = NoPage
        /\ UNCHANGED <<users, devices, now, pc, local, jobs>>

\* ------------------------------------------------- device_page_routing.py
\* see_availability(), lines 111-116: the possible results of the ordered query
FutureReservations(device_id) ==
    LET ids == {id \in DOMAIN reservations :
                    reservations[id].device_id = device_id /\ reservations[id].start_time > now}
    IN {[i \in 1..Cardinality(ids) |-> reservations[q[i]]] : q \in
           {o \in Enumerations(ids) : \A i, j \in 1..Cardinality(ids) :
                i < j => reservations[o[i]].start_time <= reservations[o[j]].start_time}}

\* the loop with <= for line 129: back-to-back reservations give a zero-width gap
RECURSIVE GapsBetween_zero_width(_, _)
GapsBetween_zero_width(rs, i) ==
    IF i > Len(rs) - 1 THEN <<>>
    ELSE (IF rs[i].end_time <= rs[i + 1].start_time
          THEN <<[start |-> rs[i].end_time, end |-> rs[i + 1].start_time]>>
          ELSE <<>>) \o GapsBetween_zero_width(rs, i + 1)

\* lines 125-135: the gaps between consecutive reservations, from index i on
RECURSIVE GapsBetween(_, _)
GapsBetween(rs, i) ==
    IF i > Len(rs) - 1 THEN <<>>
    ELSE (IF rs[i].end_time < rs[i + 1].start_time
          THEN <<[start |-> rs[i].end_time, end |-> rs[i + 1].start_time]>>
          ELSE <<>>) \o GapsBetween(rs, i + 1)

\* lines 118-147
AvailabilitySlots(rs, time_now) ==
    IF rs # <<>>
    THEN (IF time_now < rs[1].start_time
          THEN <<[start |-> time_now, end |-> rs[1].start_time]>>
          ELSE <<>>)
         \o GapsBetween(rs, 1)
         \o <<[start |-> rs[Len(rs)].end_time, end |-> None]>>
    ELSE <<[start |-> time_now, end |-> None]>>

see_availability(u, device_id) ==
    /\ IF device_id \notin DOMAIN devices
       THEN page' = NoPage
       ELSE \E rs \in FutureReservations(device_id) :
               page' = [device_id |-> device_id, now |-> now, reservations |-> rs,
                        availability_slots |-> AvailabilitySlots(rs, now)]
    /\ UNCHANGED <<users, devices, reservations, now, pc, local, jobs>>

\* home(), POST with _method = DELETE, lines 37-58: an administrator is shown the
\* confirmation page when the device has reservations and is sent back to the device
\* list when it has none; no branch touches the tables
HomeDeleteResult(u, device_id) ==
    [msg |-> IF ~users[u].administrator THEN "views_home"
             ELSE IF device_id \notin DOMAIN devices THEN "device_not_found"
             ELSE IF ReservationsOf(device_id) # {} THEN "confirm_page"
             ELSE "device_home",
     devices |-> devices, reservations |-> reservations]

DeviceHomeDelete(u, device_id) ==
    /\ devices' = HomeDeleteResult(u, device_id).devices
    /\ reservations' = HomeDeleteResult(u, device_id).reservations
    /\ page' = NoPage
    /\ UNCHANGED <<users, now, pc, local, jobs>>

\* the confirmed delete taking the device's reservations with it
ConfirmDeleteResult_cascade(u, device_id, confirm) ==
    IF device_id \notin DOMAIN devices
    THEN [msg |-> "device_not_found", devices |-> devices, reservations |-> reservations]
    ELSE IF confirm = "yes" /\ users[u].administrator
    THEN [msg |-> "deleted", devices |-> Remove(devices, device_id),
          reservations |-> [id \in DOMAIN reservations \ ReservationsOf(device_id) |-> reservations[id]]]
    ELSE IF ~users[u].administrator
    THEN [msg |-> "not_administrator", devices |-> devices, reservations |-> reservations]
    ELSE [msg |-> "canceled", devices |-> devices, reservations |-> reservations]

\* confirm_delete(), lines 61-88: verdict and the tables when the request ends.  The
\* models declare no relationship between Device and Reservation, so deleting the
\* device row writes nothing to the reservation table.
ConfirmDeleteResult(u, device_id, confirm) ==
    IF device_id \notin DOMAIN devices
    THEN [msg |-> "device_not_found", devices |-> devices, reservations |-> reservations]
    ELSE IF confirm = "yes" /\ users[u].administrator
    THEN [msg |-> "deleted", devices |-> Remove(devices, device_id), reservations |-> reservations]
    ELSE IF ~users[u].administrator
    THEN [msg |-> "not_administrator", devices |-> devices, reservations |-> reservations]
    ELSE [msg |-> "canceled", devices |-> devices, reservations |-> reservations]

confirm_delete(u, device_id, confirm) ==
    /\ devices' = ConfirmDeleteResult(u, device_id, confirm).devices
    /\ reservations' = ConfirmDeleteResult(u, device_id, confirm).reservations
    /\ page' = NoPage
    /\ UNCHANGED <<users, now, pc, local, jobs>>

\* the fields of the device update form (NoName, NoTime: not supplied)
DeviceFields == {"device_name", "device_brand", "device_status", "device_type", "last_use"}

EmptyDeviceForm == [device_name |-> NoName, device_brand |-> NoName, device_status |-> NoName,
                    device_type |-> NoName, last_use |-> NoTime]

DeviceUpdateForms == [device_name : FormNames, device_brand : {NoName, "b2"},
                      device_status : {NoName, "s2"}, device_type : {NoName, "t2"},
                      last_use : FormTimes]

\* the device update writing every submitted field to the device row, after the loop
\* over the reservations
DeviceUpdateResult_sets_fields(u, device_id, form) ==
    IF device_id \notin DOMAIN devices
    THEN [msg |-> "device_not_found", devices |-> devices, reservations |-> reservations]
    ELSE IF ~users[u].administrator
    THEN [msg |-> "not_administrator", devices |-> devices, reservations |-> reservations]
    ELSE [msg |-> "updated",
          devices |-> [devices EXCEPT ![device_id] =
                          [f \in DeviceFields |->
                              IF f = "last_use"
                              THEN (IF form[f] # NoTime /\ form[f] <= now THEN form[f] ELSE @[f])
                              ELSE (IF form[f] # NoName THEN form[f] ELSE @[f])]],
          reservations |-> [id \in DOMAIN reservations |->
                               IF reservations[id].device_id = device_id /\ form.device_name # NoName
                               THEN [reservations[id] EXCEPT !.device_name = form.device_name]
                               ELSE reservations[id]]]

\* update(), lines 158-212, with the submitted form.  The loop of line 185 reads each
\* field's value (a last_use in the future is replaced by None, lines 187-194) and
\* writes only under line 196: for device_name, once per reservation of the device,
\* the reservation's device_name and (line 202, inside that loop) the device's.  No
\* other statement assigns to the device, so the values of the other fields are dropped.
DeviceUpdateResult(u, device_id, form) ==
    IF device_id \notin DOMAIN devices
    THEN [msg |-> "device_not_found", devices |-> devices, reservations |-> reservations]
    ELSE IF ~users[u].administrator
    THEN [msg |-> "not_administrator", devices |-> devices, reservations |-> reservations]
    ELSE IF form.device_name # NoName /\ ReservationsOf(device_id) # {}
    THEN [msg |-> "updated",
          devices |-> [devices EXCEPT ![device_id].device_name = form.device_name],
          reservations |-> [id \in DOMAIN reservations |->
                               IF reservations[id].device_id = device_id
                               THEN [reservations[id] EXCEPT !.device_name = form.device_name]
                               ELSE reservations[id]]]
    ELSE [msg |-> "updated", devices |-> devices, reservations |-> reservations]

DeviceUpdate(u, device_id, form) ==
    /\ devices' = DeviceUpdateResult(u, device_id, form).devices
    /\ reservations' = DeviceUpdateResult(u, device_id, form).reservations
    /\ page' = NoPage
    /\ UNCHANGED <<users, now, pc, local, jobs>>

\* ------------------------------------------------- authentication_page_routing.py
\* line 73: len(password) < 7 is refused
MinPasswordLen == 7
\* line 79: int(security_pin) < 9999999 is refused
MinPin == 9999999

\* submitted signup forms: the password by its length, the email by whether it matches
\* the pattern of line 75, the pin by its value
PasswordLens == {MinPasswordLen - 1, MinPasswordLen}
Pins == {MinPin - 1, MinPin}
SignupUsernames == Usernames \cup {NoName}

\* the signup storing an ordinary account
SignupResult_plain_user(username, password_len, email_ok, pin, commit_ok) ==
    IF check_if_user_exists_from_username(username) THEN [msg |-> "username_exists", users |-> users]
    ELSE IF password_len < MinPasswordLen THEN [msg |-> "password_short", users |-> users]
    ELSE IF ~email_ok THEN [msg |-> "invalid_email", users |-> users]
    ELSE IF username = NoName THEN [msg |-> "username_empty", users |-> users]
    ELSE IF pin < MinPin THEN [msg |-> "pin_short", users |-> users]
    ELSE IF ~commit_ok THEN [msg |-> "commit_error", users |-> users]
    ELSE [msg |-> "created", users |-> Insert(users, username, [administrator |-> FALSE])]

\* signup_page(), POST, lines 64-96: verdict and the user table when the request ends
SignupResult(username, password_len, email_ok, pin, commit_ok) ==
    IF check_if_user_exists_from_username(username) THEN [msg |-> "username_exists", users |-> users]
    ELSE IF password_len < MinPasswordLen THEN [msg |-> "password_short", users |-> users]
    ELSE IF ~email_ok THEN [msg |-> "invalid_email", users |-> users]
    ELSE IF username = NoName THEN [msg |-> "username_empty", users |-> users]
    ELSE IF pin < MinPin THEN [msg |-> "pin_short", users |-> users]
    ELSE IF ~commit_ok THEN [msg |-> "commit_error", users |-> users]
    ELSE [msg |-> "created", users |-> Insert(users, username, [administrator |-> TRUE])]

Signup(username, password_len, email_ok, pin, commit_ok) ==
    /\ users' = SignupResult(username, password_len, email_ok, pin, commit_ok).users
    /\ page' = NoPage
    /\ UNCHANGED <<devices, reservations, now, pc, local, jobs>>

\* ------------------------------------------------------------------ Next
\* the form is read only by an administrator's request for an existing row (lines 174-180)
FormsRead(u, reservation_id) ==
    IF users[u].administrator /\ reservation_id \in DOMAIN reservations
    THEN UpdateForms ELSE {EmptyForm}

\* the reservation handlers, on devices named "A"
Next ==
    \/ Tick
    \/ \E u \in Usernames : DeviceCreate(u, "A")
    \/ \E u \in Usernames, d \in FormIds, n \in FormNames, s \in Times, e \in Times, r \in Reasons :
          Create(u, d, n, s, e, r, TRUE, TRUE)
    \/ \E u \in Usernames, id \in 1..MaxRes : \E form \in FormsRead(u, id) : Update(u, id, form)
    \/ \E u \in Usernames, id \in 1..MaxRes : Delete(u, id)

Spec == Init /\ [][Next]_vars

\* ------------------------------------------------ the availability page
\* update forms that supply times only
TimeForms == {form \in UpdateForms : Supplied(form) \subseteq {"start_time", "end_time"}}

\* the administrator reserves devices by id, moves the times, and views the availability
NextAvail ==
    \/ Tick
    \/ DeviceCreate("u1", "A")
    \/ \E d \in 1..MaxDev, s \in Times, e \in Times : Create("u1", d, NoName, s, e, "r1", TRUE, TRUE)
    \/ \E id \in 1..MaxRes : \E form \in TimeForms : Update("u1", id, form)
    \/ \E u \in Usernames, d \in 1..MaxDev : see_availability(u, d)

SpecAvail == Init /\ [][NextAvail]_vars

\* ------------------------------------------------ concurrent create requests
\* The create handler of one request thread p, cut at its accesses to the store:
\* validation (line 108), the availability query (113), the device query (119, 137) and
\* the insert with its commit (149).  Process p serves the session of SessionUser(p).
SessionUser(p) == IF p % 2 = 1 THEN "u1" ELSE "u2"

RaceStart(p, device_id, start_time, end_time, reason) ==
    /\ pc[p] = "idle"
    /\ IF check_start_and_end_time(start_time, end_time, now)
       THEN /\ pc' = [pc EXCEPT ![p] = "check"]
            /\ local' = [local EXCEPT ![p] = [NoLocal EXCEPT !.username = SessionUser(p),
                            !.device_id = device_id, !.start_time = start_time,
                            !.end_time = end_time, !.reason = reason]]
       ELSE /\ pc' = [pc EXCEPT ![p] = "rejected"]
            /\ UNCHANGED local
    /\ UNCHANGED <<users, devices, reservations, now, page, jobs>>

\* line 113: the query reads the committed rows of the device
RaceCheck(p) ==
    /\ pc[p] = "check"
    /\ local' = [local EXCEPT ![p].seen = ReservationsOf(local[p].device_id)]
    /\ pc' = [pc EXCEPT ![p] =
                 IF check_if_device_is_available(reservations, local[p].device_id,
                                                 local[p].start_time, local[p].end_time)
                 THEN "lookup" ELSE "rejected"]
    /\ UNCHANGED <<users, devices, reservations, now, page, jobs>>

\* lines 119-123, 137
RaceLookup(p) ==
    /\ pc[p] = "lookup"
    /\ pc' = [pc EXCEPT ![p] = IF local[p].device_id \in DOMAIN devices THEN "insert" ELSE "rejected"]
    /\ UNCHANGED <<users, devices, reservations, now, page, local, jobs>>

\* lines 138-150: the notification is scheduled, table_create_item adds the row and commits
RaceInsert(p) ==
    /\ pc[p] = "insert"
    /\ reservations' = Insert(reservations, NextId(reservations),
                              NewReservation(local[p].username, local[p].device_id,
                                             local[p].start_time, local[p].end_time, local[p].reason))
    /\ local' = [local EXCEPT ![p].new_id = NextId(reservations)]
    /\ pc' = [pc EXCEPT ![p] = "done"]
    /\ jobs' = schedule_reservation_notification(jobs, NoId, local[p].start_time, now)
    /\ UNCHANGED <<users, devices, now, page>>

NextRace ==
    \/ DeviceCreate("u1", "A")
    \/ \E p \in Procs, d \in 1..MaxDev, s \in Times, e \in Times : RaceStart(p, d, s, e, "r1")
    \/ \E p \in Procs : RaceCheck(p)
    \/ \E p \in Procs : RaceLookup(p)
    \/ \E p \in Procs : RaceInsert(p)

SpecRace == Init /\ [][NextRace]_vars

\* ------------------------------------------------ devices of several names
\* update forms that name a device only
DeviceForms == {form \in UpdateForms : Supplied(form) \subseteq {"device_id", "device_name"}}

\* the administrator creates and renames devices, reserves them and moves reservations
\* between them
NextName ==
    \/ \E n \in DeviceNames : DeviceCreate("u1", n)
    \/ \E u \in Usernames, d \in 1..MaxDev, n \in FormNames :
          DeviceUpdate(u, d, [EmptyDeviceForm EXCEPT !.device_name = n])
    \/ \E d \in FormIds, n \in FormNames, s \in Times, e \in Times :
          Create("u1", d, n, s, e, "r1", TRUE, TRUE)
    \/ \E id \in 1..MaxRes : \E form \in DeviceForms : Update("u1", id, form)

SpecName == Init /\ [][NextName]_vars

\* ------------------------------------------------ deleting devices
Confirms == {"yes", "no"}

NextDevice ==
    \/ \E n \in DeviceNames : DeviceCreate("u1", n)
    \/ \E u \in Usernames, d \in 1..MaxDev : DeviceHomeDelete(u, d)
    \/ \E u \in Usernames, d \in 1..MaxDev, c \in Confirms : confirm_delete(u, d, c)
    \/ \E u \in Usernames, d \in 1..MaxDev, s \in Times, e \in Times :
          Create(u, d, NoName, s, e, "r1", TRUE, TRUE)

SpecDevice == Init /\ [][NextDevice]_vars

\* ------------------------------------------------ notifications
\* creates by device id in which add_job or the commit may raise
NextNotify ==
    \/ Tick
    \/ DeviceCreate("u1", "A")
    \/ \E u \in Usernames, d \in 1..MaxDev, s \in Times, e \in Times :
          \E schedule_ok \in BOOLEAN, commit_ok \in BOOLEAN :
              Create(u, d, NoName, s, e, "r1", schedule_ok, commit_ok)

SpecNotify == Init /\ [][NextNotify]_vars

\* ------------------------------------------------ updating devices
\* the administrator creates devices named "A" and reserves them; any user submits
\* device update forms
NextRename ==
    \/ Tick
    \/ DeviceCreate("u1", "A")
    \/ \E d \in 1..MaxDev, s \in Times, e \in Times : Create("u1", d, NoName, s, e, "r1", TRUE, TRUE)
    \/ \E u \in Usernames, d \in 1..MaxDev : \E form \in DeviceUpdateForms : DeviceUpdate(u, d, form)

SpecRename == Init /\ [][NextRename]_vars

\* ------------------------------------------------ accounts made by signup
\* the tables after create_database(), all empty
InitSignup ==
    /\ users = << >>
    /\ devices = << >>
    /\ reservations = << >>
    /\ now = 0
    /\ page = NoPage
    /\ pc = [p \in Procs |-> "idle"]
    /\ local = [p \in Procs |-> NoLocal]
    /\ jobs = << >>

\* users sign up; the logged-in users create devices, reserve them by id, move the end
\* of reservations, delete reservations and delete devices
NextSignup ==
    \/ \E username \in SignupUsernames, password_len \in PasswordLens, email_ok \in BOOLEAN,
          pin \in Pins, commit_ok \in BOOLEAN :
          Signup(username, password_len, email_ok, pin, commit_ok)
    \/ \E u \in DOMAIN users : DeviceCreate(u, "A")
    \/ \E u \in DOMAIN users, d \in 1..MaxDev, s \in 1..2, e \in 2..3 :
          Create(u, d, NoName, s, e, "r1", TRUE, TRUE)
    \/ \E u \in DOMAIN users, id \in 1..MaxRes, e \in Times :
          Update(u, id, [EmptyForm EXCEPT !.end_time = e])
    \/ \E u \in DOMAIN users, id \in 1..MaxRes : Delete(u, id)
    \/ \E u \in DOMAIN users, d \in 1..MaxDev, c \in Confirms : confirm_delete(u, d, c)

SpecSignup == InitSignup /\ [][NextSignup]_vars

\* ------------------------------------------------------------ properties
\* the interval [s, e] lies strictly before or strictly after the row with this id
StrictlyApart(id, s, e) == reservations[id].end_time < s \/ e < reservations[id].start_time

\* C1: in every reachable state, any two distinct persisted reservations of the
\* same device are strictly apart: a.end_time < b.start_time or b.end_time < a.start_time.
C1_NoOverlap ==
    \A a, b \in DOMAIN reservations :
        (a # b /\ reservations[a].device_id = reservations[b].device_id)
            => (reservations[a].end_time < reservations[b].start_time
                \/ reservations[b].end_time < reservations[a].start_time)

\* C3: check_if_device_is_available(device_id, start, end) is true iff every persisted
\* reservation of the device, past ones included, has start_time > end or end_time < start.
C3_AvailableIffAllApart ==
    \A d \in 1..MaxDev, s \in Times, e \in Times :
        check_if_device_is_available(reservations, d, s, e)
            <=> (\A id \in DOMAIN reservations :
                    reservations[id].device_id = d
                        => (reservations[id].start_time > e \/ reservations[id].end_time < s))

\* C3 witness: some device has no reservation (available), and a reservation that is
\* already over makes an interval that only touches its end unavailable.
C3_Witness ==
    /\ \E d \in DOMAIN devices : ReservationsOf(d) = {}
    /\ \E id \in DOMAIN reservations, e \in Times :
          /\ reservations[id].end_time < now
          /\ reservations[id].end_time < e
          /\ ReservationsOf(reservations[id].device_id) = {id}
          /\ ~check_if_device_is_available(reservations, reservations[id].device_id,
                                           reservations[id].end_time, e)

\* C4: a create by device_id with a valid interval is rejected, the table unchanged,
\* whenever the interval overlaps or touches a reservation of that device; and it is
\* accepted, adding one row, whenever the device exists and the interval is strictly
\* apart from every reservation of that device.
C4_CreateByDeviceId ==
    \A u \in Usernames, d \in 1..MaxDev, n \in FormNames, s \in Times, e \in Times, r \in Reasons :
        \A all_devices \in DevicesNamed(n) :
            LET res == CreateResult(u, d, all_devices, s, e, r) IN
            check_start_and_end_time(s, e, now) =>
                /\ (\E id \in ReservationsOf(d) : ~StrictlyApart(id, s, e))
                      => (res.msg = "not_available" /\ res.table = reservations)
                /\ (d \in DOMAIN devices /\ \A id \in ReservationsOf(d) : StrictlyApart(id, s, e))
                      => /\ res.msg = "created"
                         /\ DOMAIN res.table = DOMAIN reservations \cup {NextId(reservations)}
                         /\ NextId(reservations) \notin DOMAIN reservations
                         /\ \A id \in DOMAIN reservations : res.table[id] = reservations[id]
                         /\ res.table[NextId(reservations)].device_id = d

\* C4 witness: a second reservation was accepted on a device strictly after the first,
\* and an interval that is still valid touches one of them (the rejected case).
C4_Witness ==
    /\ DOMAIN reservations = {1, 2}
    /\ reservations[1].device_id = reservations[2].device_id
    /\ reservations[1].end_time < reservations[2].start_time
    /\ \E s \in Times, e \in Times :
          /\ check_start_and_end_time(s, e, now)
          /\ s = reservations[1].end_time
          /\ CreateResult("u2", reservations[1].device_id, <<>>, s, e, "r1").msg = "not_available"

\* C5: the time validator at the current time rejects iff start < now or end < now
\* or start >= end; a request it rejects changes no persisted state, so validating the
\* same (start, end, now) again gives the same verdict.
C5_TimeValidator ==
    \A s \in Times, e \in Times :
        /\ ~check_start_and_end_time(s, e, now) <=> (s < now \/ e < now \/ s >= e)
        /\ \A u \in Usernames, d \in FormIds, n \in FormNames, r \in Reasons :
              \A all_devices \in DevicesNamed(n) :
                  LET res == CreateResult(u, d, all_devices, s, e, r) IN
                  /\ res.msg = "invalid_time" <=> (s < now \/ e < now \/ s >= e)
                  /\ res.msg = "invalid_time" => res.table = reservations

\* C5 witness: the clock has passed some instants, so each kind of rejection and an
\* accepted interval exist, next to a stored reservation.
C5_Witness ==
    /\ now = 2
    /\ reservations # << >>
    /\ ~check_start_and_end_time(1, 3, now)
    /\ ~check_start_and_end_time(3, 3, now)
    /\ check_start_and_end_time(2, 3, now)

\* a device with this name is free for [s, e]: all its reservations are strictly apart
FreeDevices(n, s, e) ==
    {d \in DOMAIN devices : devices[d].device_name = n
                            /\ \A id \in ReservationsOf(d) : StrictlyApart(id, s, e)}

\* C6: the resolver signals NotFound when no device has the name, NoneAvailable when
\* some have it but none is free for the interval, and otherwise returns a free device
\* of that name, whatever the enumeration order.
C6_Resolver ==
    \A n \in DeviceNames, s \in Times, e \in Times :
        \A all_devices \in DevicesNamed(n) :
            LET found == check_availability_of_device_name(reservations, all_devices, s, e)
                named == {d \in DOMAIN devices : devices[d].device_name = n}
            IN
            /\ named = {} => (found.id = NoId /\ found.flash = "no_devices_found")
            /\ (named # {} /\ FreeDevices(n, s, e) = {})
                  => (found.id = NoId /\ found.flash = "no_devices_available")
            /\ FreeDevices(n, s, e) # {} => found.id \in FreeDevices(n, s, e)

\* C6 witness: two devices share a name, the first enumerated is busy for an interval and
\* the second is free (and the name "B" matches no device).
C6_Witness ==
    /\ DOMAIN devices = {1, 2}
    /\ devices[1].device_name = devices[2].device_name
    /\ \E s \in Times, e \in Times :
          /\ s < e
          /\ ~check_if_device_is_available(reservations, 1, s, e)
          /\ check_availability_of_device_name(reservations, <<1, 2>>, s, e).id = 2
          /\ check_availability_of_device_name(reservations, <<2, 1>>, s, e).id = 2

\* C9: a delete request for an existing reservation removes it iff the requester is an
\* administrator or the reservation's owner; otherwise it is rejected with a permission
\* error and the table is unchanged.
C9_DeletePermission ==
    \A u \in Usernames, id \in DOMAIN reservations :
        LET res == DeleteResult(u, id) IN
        IF users[u].administrator \/ reservations[id].username = u
        THEN res.msg = "deleted" /\ res.table = Remove(reservations, id) /\ id \notin DOMAIN res.table
        ELSE res.msg = "no_permission" /\ res.table = reservations

\* C9 witness: a row was deleted before (id 1 is gone, id 2 remains), the remaining one
\* belongs to the administrator, so the other user's delete is the rejected case; or it
\* belongs to the non-administrator, who may delete it.
C9_Witness ==
    /\ DOMAIN reservations = {2}
    /\ reservations[2].username = "u1"
    /\ DeleteResult("u2", 2).msg = "no_permission"
    /\ DeleteResult("u1", 2).msg = "deleted"

\* C10: an update request by a user who is not an administrator changes no field of
\* any persisted reservation, even of the requester's own reservation.
C10_UpdateAdminOnly ==
    \A u \in Usernames, id \in 1..MaxRes, form \in UpdateForms :
        ~users[u].administrator =>
            \A all_devices \in DevicesNamed(form.device_name) :
                UpdateResult(u, id, form, all_devices).table = reservations

\* C10 witness: the non-administrator owns a reservation that an administrator's
\* update with the same form would change.
C10_Witness ==
    \E id \in DOMAIN reservations, form \in UpdateForms :
        /\ reservations[id].username = "u2"
        /\ ~users["u2"].administrator
        /\ UpdateResult("u1", id, form, <<>>).table # reservations
        /\ UpdateResult("u2", id, form, <<>>).msg = "form"

\* C2: two concurrent create requests for one device can both pass the availability
\* check and both be persisted with overlapping intervals; this needs the interleaving:
\* whenever two served requests left overlapping rows on one device, neither request's
\* availability query saw the other's row (each checked before the other inserted).
C2_OverlapOnlyByInterleaving ==
    \A p, q \in Procs :
        (/\ p # q
         /\ pc[p] = "done" /\ pc[q] = "done"
         /\ local[p].device_id = local[q].device_id
         /\ ~(local[p].end_time < local[q].start_time \/ local[q].end_time < local[p].start_time))
            => (local[q].new_id \notin local[p].seen /\ local[p].new_id \notin local[q].seen)

\* C2 witness: both requests are served and their rows overlap on one device.
C2_Witness ==
    \E p, q \in Procs :
        /\ p # q
        /\ pc[p] = "done" /\ pc[q] = "done"
        /\ {local[p].new_id, local[q].new_id} \subseteq DOMAIN reservations
        /\ local[p].new_id # local[q].new_id
        /\ reservations[local[p].new_id].device_id = reservations[local[q].new_id].device_id
        /\ reservations[local[p].new_id].start_time < reservations[local[q].new_id].end_time
        /\ reservations[local[q].new_id].start_time < reservations[local[p].new_id].end_time

\* an instant lies in a reservation of the page's device / in a slot of the page
InReservation(t) ==
    \E id \in ReservationsOf(page.device_id) :
        reservations[id].start_time <= t /\ t < reservations[id].end_time

InSlot(t) ==
    \E i \in 1..Len(page.availability_slots) :
        /\ page.availability_slots[i].start <= t
        /\ (page.availability_slots[i].end = None \/ t < page.availability_slots[i].end)

\* C7: on a rendered availability page, the slots and the device's reservations do not
\* overlap and cover [now, +infinity) exactly: every instant from now on is in a slot or
\* in a reservation, and never in both.
C7_SlotsPartition ==
    page.device_id # NoId =>
        \A t \in page.now..(MaxTime + 1) : InSlot(t) <=> ~InReservation(t)

\* the reference gap list of C8 for the ordered future reservations R at time n
ReferenceGaps(R, n) ==
    IF R = <<>> THEN <<[start |-> n, end |-> None]>>
    ELSE LET first == IF n < R[1].start_time THEN <<[start |-> n, end |-> R[1].start_time]>> ELSE <<>>
             between == [i \in 1..(Len(R) - 1) |-> [start |-> R[i].end_time, end |-> R[i + 1].start_time]]
             IsGap(g) == g.start < g.end
         IN first \o SelectSeq(between, IsGap) \o <<[start |-> R[Len(R)].end_time, end |-> None]>>

\* C8: the gap list of a rendered availability page equals the reference computed from
\* the device's reservations with start_time > now in ascending start order, and every
\* bounded gap has start < end.
C8_GapsAreReference ==
    page.device_id # NoId =>
        LET R == page.reservations
            ids == {id \in ReservationsOf(page.device_id) : reservations[id].start_time > page.now}
        IN
        /\ Len(R) = Cardinality(ids)
        /\ \E o \in Enumerations(ids) : \A i \in 1..Len(R) : R[i] = reservations[o[i]]
        /\ \A i, j \in 1..Len(R) : i < j => R[i].start_time <= R[j].start_time
        /\ page.availability_slots = ReferenceGaps(R, page.now)
        /\ \A i \in 1..Len(page.availability_slots) :
              page.availability_slots[i].end # None
                  => page.availability_slots[i].start < page.availability_slots[i].end

\* C8 witness: the page of a device with two back-to-back future reservations shows the
\* gap before them and the open gap after them, and none between.
C8_Witness ==
    /\ page.device_id # NoId
    /\ Len(page.reservations) = 2
    /\ page.reservations[1].end_time = page.reservations[2].start_time
    /\ Len(page.availability_slots) = 2
    /\ page.availability_slots[1].end = page.reservations[1].start_time
    /\ page.availability_slots[2].end = None

\* C11: in every state reachable by reservation creates and updates, every persisted
\* reservation has start_time strictly less than end_time, also after updates that
\* supply only start_time or only end_time.
C11_StartBeforeEnd ==
    \A id \in DOMAIN reservations : reservations[id].start_time < reservations[id].end_time

\* C11 witness: two rows of one device overlap, which only an accepted time update
\* produces; a lone start_time is accepted for a row now, and a lone end_time that is
\* not after the row's start is refused.
C11_Witness ==
    /\ \E a, b \in DOMAIN reservations :
          /\ a # b
          /\ reservations[a].device_id = reservations[b].device_id
          /\ reservations[a].start_time < reservations[b].end_time
          /\ reservations[b].start_time < reservations[a].end_time
    /\ \E id \in DOMAIN reservations, t \in Times :
          LET res == UpdateResult("u1", id, [EmptyForm EXCEPT !.start_time = t], <<>>) IN
          res.msg = "updated" /\ res.table # reservations
    /\ \E id \in DOMAIN reservations, t \in Times :
          /\ t <= reservations[id].start_time
          /\ t >= now
          /\ UpdateResult("u1", id, [EmptyForm EXCEPT !.end_time = t], <<>>).msg = "invalid_time"

\* C12: after any sequence of reservation creates, reservation updates (by device_id, by
\* device_name or both) and device renames, every persisted reservation whose device
\* still exists has device_name equal to the current device_name of that device.
C12_DeviceNameInSync ==
    \A id \in DOMAIN reservations :
        reservations[id].device_id \in DOMAIN devices
            => reservations[id].device_name = devices[reservations[id].device_id].device_name

\* C13: a persisted reservation whose start_time or end_time is earlier than now is
\* immutable under update: every administrator's update request that supplies some
\* field is rejected (by the time validation) and leaves the table unchanged.
C13_PastImmutable ==
    \A id \in DOMAIN reservations, form \in UpdateForms :
        (/\ reservations[id].start_time < now \/ reservations[id].end_time < now
         /\ Supplied(form) # {})
            => \A all_devices \in DevicesNamed(form.device_name) :
                   LET res == UpdateResult("u1", id, form, all_devices) IN
                   res.msg # "updated" /\ res.table = reservations

\* C14: a successful create adds exactly one reservation and changes no other; the new
\* row's device_id is the resolved device (the given id, else a device of the given
\* name), its device_name is that device's current name, its username is the logged-in
\* user, and its start_time, end_time and reason are the submitted ones.
C14_CreateAddsOneRow ==
    \A u \in Usernames, d \in FormIds, n \in FormNames, s \in Times, e \in Times, r \in Reasons :
        \A all_devices \in DevicesNamed(n), schedule_ok \in BOOLEAN, commit_ok \in BOOLEAN :
            LET res == CreateRequest(u, d, all_devices, s, e, r, schedule_ok, commit_ok)
                new == NextId(reservations)
            IN
            res.msg = "created" =>
                /\ new \notin DOMAIN reservations
                /\ DOMAIN res.table = DOMAIN reservations \cup {new}
                /\ \A id \in DOMAIN reservations : res.table[id] = reservations[id]
                /\ res.table[new].device_id \in DOMAIN devices
                /\ d # NoId => res.table[new].device_id = d
                /\ d = NoId => devices[res.table[new].device_id].device_name = n
                /\ res.table[new].device_name = devices[res.table[new].device_id].device_name
                /\ res.table[new].username = u
                /\ res.table[new].start_time = s
                /\ res.table[new].end_time = e
                /\ res.table[new].reason = r

\* C14 witness: devices of two names exist, a reservation was created on the one named
\* "B", and a create by that name by the other user is accepted now.
C14_Witness ==
    /\ \E d1, d2 \in DOMAIN devices : devices[d1].device_name = "A" /\ devices[d2].device_name = "B"
    /\ \E id \in DOMAIN reservations :
          /\ reservations[id].device_id \in DOMAIN devices
          /\ reservations[id].device_name = "B"
          /\ devices[reservations[id].device_id].device_name = "B"
    /\ \E s \in Times, e \in Times : \E all_devices \in DevicesNamed("B") :
          CreateRequest("u2", NoId, all_devices, s, e, "r1", TRUE, TRUE).msg = "created"

\* C15: when the commit of a new reservation raises, nothing of the request is retained:
\* the reservation table is as before the request and so is the scheduler's job store
\* (no job for the unsaved reservation remains).
C15_FailedCommitLeavesNothing ==
    \A u \in Usernames, d \in 1..MaxDev, s \in Times, e \in Times :
        LET res == CreateRequest(u, d, <<>>, s, e, "r1", TRUE, FALSE) IN
        res.msg = "commit_error" => (res.table = reservations /\ res.jobs = jobs)

\* the persisted reservations whose notification time is still ahead
AwaitingNotification == {id \in DOMAIN reservations : reservations[id].start_time - NotifyLead > now}

\* C17: notification jobs are keyed by reservation: the scheduler holds a separate
\* pending job for each created reservation whose notification time has not passed, and
\* scheduling the notification of a new reservation replaces no job of another one.
C17_JobPerReservation ==
    /\ Cardinality(DOMAIN jobs) >= Cardinality(AwaitingNotification)
    /\ \A u \in Usernames, d \in 1..MaxDev, s \in Times, e \in Times :
          LET res == CreateRequest(u, d, <<>>, s, e, "r1", TRUE, TRUE) IN
          res.msg = "created" =>
              \A k \in DOMAIN jobs : k \in DOMAIN res.jobs /\ res.jobs[k] = jobs[k]

\* C18: a create request that passes validation and availability persists its
\* reservation also when scheduling the notification fails.
C18_ScheduleFailureSwallowed ==
    \A u \in Usernames, d \in 1..MaxDev, s \in Times, e \in Times :
        CreateResult(u, d, <<>>, s, e, "r1").msg = "created"
            => CreateRequest(u, d, <<>>, s, e, "r1", FALSE, TRUE).table
                   = CreateResult(u, d, <<>>, s, e, "r1").table

\* the verdicts of update's field checks that refuse the request
UpdateRejections == {"username_not_exist", "invalid_time", "no_devices_found",
                     "no_devices_available", "device_not_exist", "not_available"}

\* C16: a reservation update that is rejected at a field check (unknown username, invalid
\* time pair, name resolving to no available device, nonexistent device_id, unavailable
\* device) leaves the persisted table exactly as before the request, whatever the
\* handler had already written to its row for the fields checked earlier.
C16_RejectedUpdateUnchanged ==
    \A id \in DOMAIN reservations, form \in UpdateForms :
        \A all_devices \in DevicesNamed(form.device_name) :
            LET out == UpdateOutcome(id, form, all_devices)
                res == UpdateResult("u1", id, form, all_devices)
            IN
            /\ out.msg \in UpdateRejections \cup {"updated"}
            /\ out.msg \in UpdateRejections => (res.msg = out.msg /\ res.table = reservations)

\* C16 witness: a request is rejected at the time check after the handler has written
\* the new username to its row, and another at the device check after it has written
\* the new times.
C16_Witness ==
    /\ \E id \in DOMAIN reservations, form \in UpdateForms :
          /\ form.username # NoName
          /\ UpdateOutcome(id, form, <<>>).msg = "invalid_time"
          /\ UpdateOutcome(id, form, <<>>).row # reservations[id]
          /\ UpdateResult("u1", id, form, <<>>).table = reservations
    /\ \E id \in DOMAIN reservations, form \in UpdateForms :
          /\ form.start_time # NoTime
          /\ UpdateOutcome(id, form, <<>>).msg \in {"device_not_exist", "not_available"}
          /\ UpdateOutcome(id, form, <<>>).row # reservations[id]
          /\ UpdateResult("u1", id, form, <<>>).table = reservations

\* C20: on update the availability check does not exclude the reservation being updated:
\* an administrator's update that names the reservation's own current device (by
\* device_id, or by a device_name borne by that device only) with a time window that
\* overlaps or touches the reservation's persisted interval commits nothing, and when
\* it passes the username and time checks it is rejected as unavailable.
C20_OwnReservationBlocks ==
    \A id \in DOMAIN reservations, form \in UpdateForms :
        \A all_devices \in DevicesNamed(form.device_name) :
            LET r == reservations[id]
                named == {d \in DOMAIN devices : devices[d].device_name = form.device_name}
                names_own == IF form.device_name # NoName
                             THEN named = {r.device_id}
                             ELSE form.device_id = r.device_id
                s == IF form.start_time # NoTime THEN form.start_time ELSE r.start_time
                e == IF form.end_time # NoTime THEN form.end_time ELSE r.end_time
                username_ok == form.username = NoName \/ form.username \in DOMAIN users
                times_ok == (form.start_time = NoTime /\ form.end_time = NoTime)
                            \/ (s >= now /\ e >= now /\ s < e)
                res == UpdateResult("u1", id, form, all_devices)
            IN
            (names_own /\ ~(r.end_time < s \/ e < r.start_time)) =>
                /\ res.table = reservations
                /\ res.msg # "updated"
                /\ (username_ok /\ times_ok) => res.msg \in {"not_available", "no_devices_available"}

\* C20 witness: a device holds one reservation only, and an update of that reservation
\* that names the same device is refused as unavailable, by id and by name, with the
\* stored times and with a new end time.
C20_Witness ==
    \E id \in DOMAIN reservations :
        LET r == reservations[id] IN
        /\ ReservationsOf(r.device_id) = {id}
        /\ DOMAIN devices = {r.device_id}
        /\ UpdateResult("u1", id, [EmptyForm EXCEPT !.device_id = r.device_id], <<>>).msg = "not_available"
        /\ UpdateResult("u1", id, [EmptyForm EXCEPT !.device_name = r.device_name],
                        <<r.device_id>>).msg = "no_devices_available"
        /\ \E t \in Times :
              /\ t > r.end_time
              /\ UpdateResult("u1", id, [EmptyForm EXCEPT !.device_id = r.device_id, !.end_time = t],
                              <<>>).msg = "not_available"

\* C19: a device leaves the store only by an administrator's confirm_delete request
\* with confirm = yes; that removal (and every refused request) leaves every
\* reservation as it was, so the reservations of the deleted device stay persisted
\* with a device_id that no device has.
C19_DeviceDelete ==
    /\ [](\A u \in Usernames, d \in 1..MaxDev :
            /\ HomeDeleteResult(u, d).devices = devices
            /\ HomeDeleteResult(u, d).reservations = reservations
            /\ \A c \in Confirms :
                  LET res == ConfirmDeleteResult(u, d, c) IN
                  /\ res.reservations = reservations
                  /\ IF d \in DOMAIN devices /\ users[u].administrator /\ c = "yes"
                     THEN /\ res.devices = Remove(devices, d)
                          /\ \A id \in ReservationsOf(d) :
                                /\ id \in DOMAIN res.reservations
                                /\ res.reservations[id].device_id \notin DOMAIN res.devices
                     ELSE res.devices = devices)
    /\ [][(DOMAIN devices \ DOMAIN devices' # {})
            => /\ reservations' = reservations
               /\ \E u \in Usernames, d \in DOMAIN devices :
                     /\ users[u].administrator
                     /\ devices' = ConfirmDeleteResult(u, d, "yes").devices]_vars

\* C19 witness: a reservation refers to a device that was deleted, another device with a
\* reservation is still there, and the non-administrator's confirmed request and the
\* administrator's unconfirmed one for it are refused.
C19_Witness ==
    /\ \E id \in DOMAIN reservations : reservations[id].device_id \notin DOMAIN devices
    /\ \E d \in DOMAIN devices :
          /\ ReservationsOf(d) # {}
          /\ ConfirmDeleteResult("u2", d, "yes").msg = "not_administrator"
          /\ ConfirmDeleteResult("u1", d, "no").msg = "canceled"
          /\ ConfirmDeleteResult("u1", d, "yes").msg = "deleted"
          /\ HomeDeleteResult("u1", d).msg = "confirm_page"

\* C21: an administrator's update that supplies start_time and/or end_time and neither
\* device_id nor device_name never consults the availability checker: when the pair the
\* row will hold passes the time validation (and a supplied username exists) the
\* request is committed with that pair, whatever the other reservations of the device.
C21_TimeUpdateUnchecked ==
    \A id \in DOMAIN reservations, form \in UpdateForms :
        (/\ form.device_id = NoId /\ form.device_name = NoName
         /\ form.start_time # NoTime \/ form.end_time # NoTime)
            => LET r == reservations[id]
                   s == IF form.start_time # NoTime THEN form.start_time ELSE r.start_time
                   e == IF form.end_time # NoTime THEN form.end_time ELSE r.end_time
                   username_ok == form.username = NoName \/ form.username \in DOMAIN users
                   res == UpdateResult("u1", id, form, <<>>)
               IN
               IF username_ok /\ s >= now /\ e >= now /\ s < e
               THEN /\ res.msg = "updated"
                    /\ DOMAIN res.table = DOMAIN reservations
                    /\ \A other \in DOMAIN reservations \ {id} : res.table[other] = reservations[other]
                    /\ res.table[id].start_time = s
                    /\ res.table[id].end_time = e
                    /\ res.table[id].device_id = r.device_id
               ELSE res.msg \in {"username_not_exist", "invalid_time"} /\ res.table = reservations

\* C21 witness: a time-only update is committed although the new interval overlaps
\* another reservation of the same device.
C21_Witness ==
    \E id, other \in DOMAIN reservations, t \in Times :
        LET res == UpdateResult("u1", id, [EmptyForm EXCEPT !.end_time = t], <<>>) IN
        /\ id # other
        /\ reservations[id].device_id = reservations[other].device_id
        /\ reservations[id].end_time < reservations[other].start_time
        /\ res.msg = "updated"
        /\ res.table[id].end_time > reservations[other].start_time

C23_SignupMakesAdministrators ==
    /\ \A username \in SignupUsernames, password_len \in PasswordLens, email_ok \in BOOLEAN,
          pin \in Pins, commit_ok \in BOOLEAN :
          LET res == SignupResult(username, password_len, email_ok, pin, commit_ok) IN
          /\ \A u \in DOMAIN users : u \in DOMAIN res.users /\ res.users[u] = users[u]
          /\ res.msg = "created" => (username \in DOMAIN res.users /\ res.users[username].administrator)
    /\ \A u \in DOMAIN users :
          /\ users[u].administrator
          /\ \A id \in DOMAIN reservations :
                /\ DeleteResult(u, id).msg = "deleted"
                /\ \A form \in UpdateForms : UpdateResult(u, id, form, <<>>).msg # "form"
          /\ \A d \in DOMAIN devices : ConfirmDeleteResult(u, d, "yes").msg = "deleted"

\* C23 witness: two users have signed up, and the second may delete and move the
\* first one's reservation and delete its device.
C23_Witness ==
    /\ DOMAIN users = {"u1", "u2"}
    /\ \E id \in DOMAIN reservations :
          /\ reservations[id].username = "u1"
          /\ reservations[id].device_id \in DOMAIN devices
          /\ DeleteResult("u2", id).msg = "deleted"
          /\ \E form \in TimeForms :
                /\ UpdateResult("u2", id, form, <<>>).msg = "updated"
                /\ UpdateResult("u2", id, form, <<>>).table # reservations
          /\ ConfirmDeleteResult("u2", reservations[id].device_id, "yes").msg = "deleted"

====
